---- MODULE Spec2Model ----
(***************************************************************************)
(* Model of synet/utils/fnfree_policy.py: the Match / Action combinators   *)
(* that encode BGP route-map semantics as constraints of a solver context. *)
(*                                                                         *)
(* Objects live in arenas and are named by their position in the arena:    *)
(*   ctx_vars         the SMTVar objects of the SolverContext              *)
(*   ctx_constraints  the constraints registered in the SolverContext      *)
(*   matches          the SMTAbstractMatch objects                         *)
(*   actions          the SMTAction objects                                *)
(*   anns             the Announcement objects                             *)
(*   sets             the announcement-set versions                        *)
(* 0 stands for None wherever an object is expected.                       *)
(***************************************************************************)
EXTENDS Integers, Sequences, FiniteSets, TLC

VARIABLES ctx_vars, ctx_constraints, ctx_enums, matches, actions, anns, comms,
          sets, model, asked, last

vars == <<ctx_vars, ctx_constraints, ctx_enums, matches, actions, anns, comms,
          sets, model, asked, last>>

-----------------------------------------------------------------------------
(* Bounds of the model *)

\* announcements in the initial announcement-set
NumAnns == 2
\* leaf match objects (All, None, Attribute, Community, SMTMatch)
MaxLeaves == 2
\* combinator match objects (And, Or, SelectOne)
MaxCombinators == 1
\* length of a list of sub-matches or candidates a caller passes
MaxSubs == 2
\* distinct (match, announcement) pairs a caller queries
MaxQueries == 1
\* setter action objects (SetAttribute, SetCommunity)
MaxSetters == 2
\* SetOne action objects
MaxSetOnes == 1
\* announcement-set versions up to which a caller executes an action again
MaxSets == 5

-----------------------------------------------------------------------------
(* The announcement data type and the sorts of its attributes *)

\* Announcement.attributes, in order
Attributes ==
    <<"prefix", "peer", "origin", "next_hop", "as_path", "as_path_len",
      "local_pref", "med", "permitted", "communities">>

ScalarAttributes == {Attributes[i] : i \in 1..Len(Attributes)} \ {"communities"}

\* the known community tags (ctx.communities), in iteration order
Communities == <<"c1", "c2">>

CommunitySet == {Communities[i] : i \in 1..Len(Communities)}

\* the sort of each attribute of an announcement
AttrSort(attr) ==
    CASE attr = "prefix" -> "PrefixSort"
      [] attr = "peer" -> "PeerSort"
      [] attr = "origin" -> "BGPOriginSort"
      [] attr = "next_hop" -> "NextHopSort"
      [] attr = "as_path" -> "ASPathSort"
      [] attr \in {"as_path_len", "local_pref", "med"} -> "Int"
      [] attr = "permitted" -> "Bool"

\* the values of an enumerated sort (vsort.symbolic_values), in order
EnumDomain(vsort) == <<1, 2>>

-----------------------------------------------------------------------------
(* Symbolic values and the solver context *)

\* the optional concrete value of an SMTVar
NoValue == [kind |-> "none", val |-> 0]
BoolValue(b) == [kind |-> "bool", val |-> IF b THEN 1 ELSE 0]
IntValue(n) == [kind |-> "int", val |-> n]
EnumValue(n) == [kind |-> "enum", val |-> n]
\* an SMTVar object handed over as the value of another
VarValue(id) == [kind |-> "var", val |-> id]

SMTVar(vsort, name_prefix, value) ==
    [vsort |-> vsort, name_prefix |-> name_prefix,
     kind |-> value.kind, val |-> value.val]

\* SMTVar.is_concrete: a value was given
is_concrete(var) == var.kind # "none"

\* SMTVar.get_value, as the truth value of a concrete boolean
get_value(var) == var.val = 1

\* The state the operations work on, threaded through every call.
State ==
    [v |-> ctx_vars, c |-> ctx_constraints, m |-> matches, a |-> actions,
     n |-> anns, s |-> sets, e |-> ctx_enums, k |-> comms]

\* ctx.get_enum_type(vsort).symbolic_values: the values the context knows
\* of an enumerated sort, in order
symbolic_values(st, vsort) == st.e[vsort]

create_fresh_var(st, vsort, name_prefix, value) ==
    [st EXCEPT !.v = Append(@, SMTVar(vsort, name_prefix, value))]

\* the object create_fresh_var has just returned
fresh(st) == Len(st.v)

register_constraint(st, constraint) ==
    [st EXCEPT !.c = Append(@, constraint)]

\* SMTVar.check_eq: a host boolean when both sides are concrete, a solver
\* term otherwise
check_eq(st, x, y) ==
    IF is_concrete(st.v[x]) /\ is_concrete(st.v[y])
    THEN [symbolic |-> FALSE,
          value |-> (st.v[x].kind = st.v[y].kind /\ st.v[x].val = st.v[y].val)]
    ELSE [symbolic |-> TRUE, value |-> FALSE]

\* getattr(announcement, attribute)
getattr(st, ann, attr) == st.n[ann].attrs[attr]

\* announcement.communities: the mapping object an announcement holds, from
\* community tags to values
communities_of(st, ann) == st.k[st.n[ann].communities]

\* a new mapping object
new_mapping(st, mapping) == [st EXCEPT !.k = Append(@, mapping)]

\* the announcements of an announcement-set, as a sequence of objects
set_anns(st, s) == st.s[s].anns

-----------------------------------------------------------------------------
(* Match objects *)

MatchNode(kind) ==
    [kind |-> kind, matches |-> <<>>, attribute |-> "", community |-> "",
     value |-> 0, match_var |-> 0, index_var |-> 0, smt_match |-> 0,
     matched_announcements |-> <<>>,
     match |-> [type |-> "", match |-> 0, items |-> <<>>]]

add_match(st, node) == [st EXCEPT !.m = Append(@, node)]

\* the result of a constructor that raised: the state as the constructor
\* left it, and no object
raised(st) == [st |-> st, ok |-> FALSE, id |-> 0]

built(st, id) == [st |-> st, ok |-> TRUE, id |-> id]

\* SMTMatchAll.__init__
SMTMatchAll_init(st) ==
    LET st1 == create_fresh_var(st, "Bool", "match_all_", BoolValue(TRUE))
        st2 == add_match(st1, [MatchNode("All") EXCEPT !.match_var = fresh(st1)])
    IN  built(st2, Len(st2.m))

\* SMTMatchNone.__init__
SMTMatchNone_init(st) ==
    LET st1 == create_fresh_var(st, "Bool", "match_none_", BoolValue(FALSE))
        st2 == add_match(st1, [MatchNode("None") EXCEPT !.match_var = fresh(st1)])
    IN  built(st2, Len(st2.m))

\* SMTMatchAnd.__init__
SMTMatchAnd_init(st, ms, announcements) ==
    LET st1 == add_match(st, [MatchNode("And") EXCEPT !.matches = ms])
    IN  built(st1, Len(st1.m))

\* SMTMatchOr.__init__
SMTMatchOr_init(st, ms, announcements) ==
    LET st1 == add_match(st, [MatchNode("Or") EXCEPT !.matches = ms])
    IN  built(st1, Len(st1.m))

\* SMTMatchAttribute.__init__
SMTMatchAttribute_init(st, attribute, value, announcements) ==
    IF set_anns(st, announcements) = <<>> THEN raised(st)
    ELSE IF attribute \notin ScalarAttributes \cup {"communities"} THEN raised(st)
    ELSE IF attribute = "communities" THEN raised(st)
    ELSE
      LET first == set_anns(st, announcements)[1]
          attr_sort == st.v[getattr(st, first, attribute)].vsort
          st1 == IF value = 0
                 THEN create_fresh_var(st, attr_sort,
                                       "Match_attr_" \o attribute \o "_", NoValue)
                 ELSE st
          val == IF value = 0 THEN fresh(st1) ELSE value
      IN  IF attr_sort # st1.v[val].vsort THEN raised(st1)
          ELSE LET st2 == add_match(st1, [MatchNode("Attribute") EXCEPT
                                             !.attribute = attribute,
                                             !.value = val])
               IN  built(st2, Len(st2.m))

\* SMTMatchCommunity.__init__
SMTMatchCommunity_init(st, community, value, announcements) ==
    IF set_anns(st, announcements) = <<>> THEN raised(st)
    ELSE IF community \notin DOMAIN communities_of(st, set_anns(st, announcements)[1])
    THEN raised(st)
    ELSE
      LET st1 == IF value = 0
                 THEN create_fresh_var(st, "Bool", "Match_Community_var_",
                                       BoolValue(TRUE))
                 ELSE st
          val == IF value = 0 THEN fresh(st1) ELSE value
          st2 == add_match(st1, [MatchNode("Community") EXCEPT
                                    !.community = community,
                                    !.value = val])
      IN  built(st2, Len(st2.m))

\* attribute_match_factory with announcements and ctx given
attribute_match_factory(st, attribute, value, announcements) ==
    IF attribute \in ScalarAttributes
    THEN SMTMatchAttribute_init(st, attribute, value, announcements)
    ELSE IF attribute \in CommunitySet
    THEN SMTMatchCommunity_init(st, attribute, value, announcements)
    ELSE raised(st)

\* The keys the default universe of SMTMatchSelectOne / SMTSetOne walks:
\* every attribute, with `communities` expanded into the community tags of
\* the first announcement.
RECURSIVE default_keys(_)
default_keys(i) ==
    IF i > Len(Attributes) THEN <<>>
    ELSE (IF Attributes[i] = "communities" THEN Communities
          ELSE <<Attributes[i]>>) \o default_keys(i + 1)

\* a list of constructed objects: none yet / one more in front / none,
\* because a constructor raised
no_ids(st) == [st |-> st, ok |-> TRUE, ids |-> <<>>]
prepend(id, rest) == [st |-> rest.st, ok |-> rest.ok, ids |-> <<id>> \o rest.ids]
no_list(st) == [st |-> st, ok |-> FALSE, ids |-> <<>>]

\* the loop building the default candidate matches; r is the candidate
\* just built
RECURSIVE default_matches(_, _, _, _)
RECURSIVE default_matches_rest(_, _, _, _)
default_matches(st, keys, announcements, i) ==
    IF i > Len(keys) THEN no_ids(st)
    ELSE default_matches_rest(
             attribute_match_factory(st, keys[i], 0, announcements),
             keys, announcements, i)

default_matches_rest(r, keys, announcements, i) ==
    IF ~r.ok THEN no_list(r.st)
    ELSE prepend(r.id, default_matches(r.st, keys, announcements, i + 1))

\* `self.index_var >= 0` compares the SMTVar wrapper, not its solver term,
\* with an integer: the host decides it (an object is never below a number)
\* and the conjunct says nothing about the index.
SelectOne_lower == "host_true"

\* `self.index_var.var >= 0`: a solver term
SetOne_lower == "index_ge_0"

index_range(name, index_var, lower, upper) ==
    [name |-> name, op |-> "index_range", index |-> index_var,
     lower |-> lower, upper |-> upper]

\* SMTMatchSelectOne.__init__ once the candidates d are known
SelectOne_over(d) ==
    IF ~d.ok THEN raised(d.st)
    ELSE
      LET st1 == create_fresh_var(d.st, "Int", "SelectOne_index_", NoValue)
          st2 == register_constraint(st1,
                    index_range("SelectOne_index_range_", fresh(st1),
                                SelectOne_lower, Len(d.ids)))
      IN  built(add_match(st2, [MatchNode("SelectOne") EXCEPT
                                   !.matches = d.ids,
                                   !.index_var = fresh(st1)]),
                Len(d.st.m) + 1)

\* SMTMatchSelectOne.__init__ ; ms = <<>> stands for a missing or empty list
SMTMatchSelectOne_init(st, announcements, ms) ==
    IF set_anns(st, announcements) = <<>> THEN raised(st)
    ELSE SelectOne_over(
             IF ms = <<>>
             THEN default_matches(st, default_keys(1), announcements, 1)
             ELSE [st |-> st, ok |-> TRUE, ids |-> ms])

-----------------------------------------------------------------------------
(* The route-map adapter SMTMatch.  A clause is                            *)
(*   [type, match, items]: its class, its single value (0 when empty) and, *)
(*   for the list clauses, its networks or communities (0 / "" when empty) *)

Clause(type, match, items) == [type |-> type, match |-> match, items |-> items]

\* SMTMatchSelectOne(self.announcements, self.ctx, matches) over the
\* matches l the adapter has just built
select_one_of(l, announcements) ==
    IF ~l.ok THEN raised(l.st)
    ELSE SMTMatchSelectOne_init(l.st, announcements, l.ids)

\* SMTMatchAttribute('prefix', <a fresh value ip>, ...)
ip_match(st, ip, announcements) ==
    SMTMatchAttribute_init(
        create_fresh_var(st, "PrefixSort", "", EnumValue(ip)),
        "prefix", Len(st.v) + 1, announcements)

\* one loop of _get_ip_match over vsort.symbolic_values
RECURSIVE ip_matches(_, _, _, _)
RECURSIVE ip_matches_rest(_, _, _, _)
ip_matches(st, domain, announcements, i) ==
    IF i > Len(domain) THEN no_ids(st)
    ELSE ip_matches_rest(ip_match(st, domain[i], announcements),
                         domain, announcements, i)

ip_matches_rest(r, domain, announcements, i) ==
    IF ~r.ok THEN no_list(r.st)
    ELSE prepend(r.id, ip_matches(r.st, domain, announcements, i + 1))

\* SMTMatch._get_ip_match
get_ip_match(st, ip, announcements) ==
    IF ip # 0
    THEN ip_match(st, ip, announcements)
    ELSE select_one_of(
             ip_matches(st, symbolic_values(st, "PrefixSort"), announcements, 1),
             announcements)

\* SMTMatchCommunity(community, <a fresh true value>, ...)
community_match(st, community, announcements) ==
    SMTMatchCommunity_init(
        create_fresh_var(st, "Bool", "", BoolValue(TRUE)),
        community, Len(st.v) + 1, announcements)

\* one loop of _get_community_match over ctx.communities
RECURSIVE community_matches(_, _, _)
RECURSIVE community_matches_rest(_, _, _)
community_matches(st, announcements, i) ==
    IF i > Len(Communities) THEN no_ids(st)
    ELSE community_matches_rest(
             community_match(st, Communities[i], announcements),
             announcements, i)

community_matches_rest(r, announcements, i) ==
    IF ~r.ok THEN no_list(r.st)
    ELSE prepend(r.id, community_matches(r.st, announcements, i + 1))

\* SMTMatch._get_community_match
get_community_match(st, community, announcements) ==
    IF community # ""
    THEN community_match(st, community, announcements)
    ELSE select_one_of(community_matches(st, announcements, 1), announcements)

\* the loops of _load_match_prefix_list and _load_match_communities_list
RECURSIVE load_list(_, _, _, _, _)
RECURSIVE load_list_rest(_, _, _, _, _)
load_list(st, type, items, announcements, i) ==
    IF i > Len(items) THEN no_ids(st)
    ELSE load_list_rest(
             IF type = "MatchIpPrefixListList"
             THEN get_ip_match(st, items[i], announcements)
             ELSE get_community_match(st, items[i], announcements),
             type, items, announcements, i)

load_list_rest(r, type, items, announcements, i) ==
    IF ~r.ok THEN no_list(r.st)
    ELSE prepend(r.id, load_list(r.st, type, items, announcements, i + 1))

\* what a _load_match_* method leaves in self.smt_match and self.value
loaded(r, value) == [st |-> r.st, ok |-> r.ok, id |-> r.id, value |-> value]

\* _load_match_next_hop, _load_match_peer, _load_match_local_pref
load_match_value(st, attribute, match, announcements) ==
    loaded(SMTMatchAttribute_init(
               create_fresh_var(st, AttrSort(attribute), "",
                   IF match = 0 THEN NoValue
                   ELSE IF AttrSort(attribute) = "Int" THEN IntValue(match)
                   ELSE EnumValue(match)),
               attribute, Len(st.v) + 1, announcements),
           Len(st.v) + 1)

\* SMTMatchAnd(matches, self.announcements, self.ctx) over the matches l
and_of(l, announcements) ==
    IF l.ok THEN SMTMatchAnd_init(l.st, l.ids, announcements)
    ELSE raised(l.st)

\* _load_match_prefix_list, _load_match_communities_list
load_match_list(st, type, items, announcements) ==
    loaded(and_of(load_list(st, type, items, announcements, 1), announcements), 0)

\* SMTMatch.__init__ once the clause is loaded
SMTMatch_of(r, clause) ==
    IF ~r.ok THEN raised(r.st)
    ELSE built(add_match(r.st, [MatchNode("SMTMatch") EXCEPT
                                   !.match = clause,
                                   !.smt_match = r.id,
                                   !.value = r.value]),
               Len(r.st.m) + 1)

\* SMTMatch.__init__
SMTMatch_init(st, clause, announcements) ==
    SMTMatch_of(
        CASE clause.type = "MatchNextHop" ->
               load_match_value(st, "next_hop", clause.match, announcements)
          [] clause.type = "MatchPeer" ->
               load_match_value(st, "peer", clause.match, announcements)
          [] clause.type = "MatchLocalPref" ->
               load_match_value(st, "local_pref", clause.match, announcements)
          [] clause.type \in {"MatchIpPrefixListList", "MatchCommunitiesList"} ->
               load_match_list(st, clause.type, clause.items, announcements)
          [] OTHER -> [st |-> st, ok |-> FALSE, id |-> 0, value |-> 0],
        clause)

-----------------------------------------------------------------------------
(* is_match *)

\* `announcement not in self.matched_announcements` is false
in_cache_never(node, a) == FALSE

in_cache(node, a) == a \in DOMAIN node.matched_announcements

\* self.matched_announcements[announcement] = match_var
cache(st, m, a, match_var) ==
    [st EXCEPT !.m[m].matched_announcements = (a :> match_var) @@ @]

all_concrete(st, results) ==
    \A i \in 1..Len(results) : is_concrete(st.v[results[i]])

\* any() where all() is meant
all_values_any(st, results) ==
    \E i \in 1..Len(results) : get_value(st.v[results[i]])

\* all([result.get_value() for result in results])
all_values(st, results) ==
    \A i \in 1..Len(results) : get_value(st.v[results[i]])

\* any([result.get_value() for result in results])
any_values(st, results) ==
    \E i \in 1..Len(results) : get_value(st.v[results[i]])

\* the index check off by one
If_shifted(index, value, next) ==
    [tag |-> "If", index |-> index + 1, var |-> value, next |-> next]

\* the nested conditional of _get_match / _get_actions / _get_communities
If(index, value, next) == [tag |-> "If", index |-> index, var |-> value, next |-> next]

\* z3.And(self.index_var.var == current_index, False)
AndFalse(index) == [tag |-> "AndFalse", index |-> index]

\* the default handed to _get_actions / _get_communities
Default(var) == [tag |-> "Default", var |-> var]

RECURSIVE is_match(_, _, _)
RECURSIVE match_results(_, _, _, _, _)
RECURSIVE get_match(_, _, _, _)

\* [match.is_match(announcement) for match in self.matches]: r is the
\* answer of match i, results the answers before it
match_results_next(r, ms, a, i, results) ==
    match_results(r.st, ms, a, i + 1, Append(results, r.res))

match_results(st, ms, a, i, results) ==
    IF i > Len(ms) THEN [st |-> st, res |-> results]
    ELSE match_results_next(is_match(st, ms[i], a), ms, a, i, results)

\* z3.If(index_check, match_var, next_attr)
get_match_if(current_index, match_var, next_attr) ==
    [st |-> next_attr.st,
     expr |-> If(current_index, match_var, next_attr.expr)]

\* SMTMatchSelectOne._get_match after the candidate has answered r
get_match_next(r, m, a, current_index) ==
    get_match_if(current_index, r.res,
                 get_match(r.st, m, a, current_index + 1))

\* SMTMatchSelectOne._get_match ; the candidate of index i is matches[i + 1]
get_match(st, m, a, current_index) ==
    IF current_index + 1 \notin DOMAIN st.m[m].matches
    THEN [st |-> st, expr |-> AndFalse(current_index)]
    ELSE get_match_next(is_match(st, st.m[m].matches[current_index + 1], a),
                        m, a, current_index)

\* SMTMatchAnd.is_match / SMTMatchOr.is_match once the sub-matches have
\* answered r: the fold when all are concrete, a constraint otherwise
combine(r, m, a, kind) ==
    LET concrete == all_concrete(r.st, r.res)
        value == IF ~concrete THEN NoValue
                 ELSE IF kind = "And" THEN BoolValue(all_values(r.st, r.res))
                 ELSE BoolValue(any_values(r.st, r.res))
        st1 == create_fresh_var(r.st, "Bool",
                   IF kind = "And" THEN "match_and_" ELSE "match_or_", value)
        match_var == Len(r.st.v) + 1
        st2 == IF concrete THEN st1
               ELSE register_constraint(st1,
                        IF kind = "And"
                        THEN [name |-> "const_and_", op |-> "eq_and",
                              lhs |-> match_var, args |-> r.res]
                        ELSE [name |-> "const_or_", op |-> "eq_or",
                              lhs |-> match_var, args |-> r.res])
    IN  [st |-> cache(st2, m, a, match_var), res |-> match_var]

\* SMTMatchAnd.is_match, after the cache check
SMTMatchAnd_is_match(st, m, a) ==
    combine(match_results(st, st.m[m].matches, a, 1, <<>>), m, a, "And")

\* SMTMatchOr.is_match, after the cache check
SMTMatchOr_is_match(st, m, a) ==
    combine(match_results(st, st.m[m].matches, a, 1, <<>>), m, a, "Or")

\* var.var == self._get_match(announcement), registered
select_result(g, var) ==
    [st |-> register_constraint(g.st,
                [name |-> "SelectOne_match_", op |-> "eq_expr",
                 lhs |-> var, expr |-> g.expr]),
     res |-> var]

\* SMTMatchSelectOne.is_match, after the cache check
SMTMatchSelectOne_is_match(st, m, a) ==
    select_result(
        get_match(cache(create_fresh_var(st, "Bool", "", NoValue),
                        m, a, Len(st.v) + 1),
                  m, a, 0),
        Len(st.v) + 1)

\* the body shared by SMTMatchAttribute.is_match and
\* SMTMatchCommunity.is_match once the compared attribute is known
match_eq(st, m, a, attr, name_prefix, const_prefix) ==
    LET constraint == check_eq(st, attr, st.m[m].value)
        value == IF ~constraint.symbolic THEN BoolValue(constraint.value)
                 ELSE NoValue
        st1 == create_fresh_var(st, "Bool", name_prefix, value)
        match_var == fresh(st1)
        st2 == IF constraint.symbolic
               THEN register_constraint(st1,
                        [name |-> const_prefix, op |-> "eq_check",
                         lhs |-> match_var, x |-> attr, y |-> st.m[m].value])
               ELSE st1
    IN  [st |-> cache(st2, m, a, match_var), res |-> match_var]

\* SMTMatchAttribute.is_match, after the cache check
SMTMatchAttribute_is_match(st, m, a) ==
    match_eq(st, m, a, getattr(st, a, st.m[m].attribute),
             "match_" \o st.m[m].attribute \o "_var_",
             "const_match_" \o st.m[m].attribute \o "_")

\* SMTMatchCommunity.is_match, after the cache check
SMTMatchCommunity_is_match(st, m, a) ==
    match_eq(st, m, a, communities_of(st, a)[st.m[m].community], "", "")

is_match(st, m, a) ==
    LET node == st.m[m]
    IN  CASE node.kind \in {"All", "None"} -> [st |-> st, res |-> node.match_var]
          [] node.kind = "SMTMatch" -> is_match(st, node.smt_match, a)
          [] OTHER ->
               IF in_cache(node, a)
               THEN [st |-> st, res |-> node.matched_announcements[a]]
               ELSE CASE node.kind = "And" -> SMTMatchAnd_is_match(st, m, a)
                      [] node.kind = "Or" -> SMTMatchOr_is_match(st, m, a)
                      [] node.kind = "SelectOne" -> SMTMatchSelectOne_is_match(st, m, a)
                      [] node.kind = "Attribute" -> SMTMatchAttribute_is_match(st, m, a)
                      [] node.kind = "Community" -> SMTMatchCommunity_is_match(st, m, a)

\* SMTMatchSelectOne.get_used_match: self.matches[self.index_var.get_value()]
get_used_match(st, solved, m) ==
    LET i == solved[st.m[m].index_var]
    IN  IF i + 1 \in DOMAIN st.m[m].matches
        THEN [ok |-> TRUE, id |-> st.m[m].matches[i + 1]]
        ELSE [ok |-> FALSE, id |-> 0]

-----------------------------------------------------------------------------
(* Action objects *)

ActionNode(kind) ==
    [kind |-> kind, match |-> 0, attribute |-> "", community |-> "",
     value |-> 0, old_announcements |-> 0, announcements |-> 0,
     actions |-> <<>>, index_var |-> 0]

add_action(st, node) == [st EXCEPT !.a = Append(@, node)]

\* an execute() that returned / that raised
done(st) == [st |-> st, ok |-> TRUE]
failed(st) == [st |-> st, ok |-> FALSE]

\* self._old_announcements.create_new(announcements, self): the new
\* announcements become objects and the new version points back to the
\* version and the action it comes from
create_new(st, act, new_anns) ==
    LET n == Len(st.n)
        version == [anns |-> [i \in 1..Len(new_anns) |-> n + i],
                    prev |-> st.a[act].old_announcements, action |-> act]
    IN  [st EXCEPT !.n = @ \o new_anns,
                   !.s = Append(@, version),
                   !.a[act].announcements = Len(st.s) + 1]

\* `if self._announcements: return`
executed(st, act) == st.a[act].announcements # 0

\* the two branches swapped
partial_eval_swapped(st, is_match_var, value, old_var) ==
    IF get_value(st.v[is_match_var]) THEN old_var ELSE value

\* the branch of SMTSetAttribute.execute for a concrete is_match
partial_eval(st, is_match_var, value, old_var) ==
    IF get_value(st.v[is_match_var]) THEN value ELSE old_var

\* z3.If(is_match.var, new_var.var == self.value, new_var.var == old)
IfMatch(is_match_var, new_var, value, old) ==
    [op |-> "if_match", match |-> is_match_var, lhs |-> new_var,
     then |-> value, else |-> old]

\* the value SMTSetAttribute.execute hands to create_fresh_var for the new
\* attribute: value=self.value
SetAttribute_fresh_value(st, act) == VarValue(st.a[act].value)

\* what the loop of an execute() has gathered
gathered(st, ok, constraints, new_anns) ==
    [st |-> st, ok |-> ok, constraints |-> constraints, anns |-> new_anns]

\* the end of SMTSetAttribute.execute / SMTSetCommunity.execute: the
\* gathered constraints are registered as one conjunction, if there are
\* any, and the new version is made
finish(l, act) ==
    IF ~l.ok THEN failed(l.st)
    ELSE done(create_new(
                  IF l.constraints # <<>>
                  THEN register_constraint(l.st,
                           [name |-> "", op |-> "and", args |-> l.constraints])
                  ELSE l.st,
                  act, l.anns))

\* the new value is stored under a second attribute as well
new_vals_two(announcement, attribute, new_var) ==
    [announcement EXCEPT !.attrs[attribute] = new_var, !.attrs["med"] = new_var]

\* the attributes of the announcement SMTSetAttribute.execute makes from
\* one old announcement: new_var under self.attribute, attr_var elsewhere
new_vals(announcement, attribute, new_var) ==
    [announcement EXCEPT !.attrs[attribute] = new_var]

RECURSIVE SetAttribute_loop(_, _, _, _, _)

\* one announcement of SMTSetAttribute.execute, the guard having answered r
SetAttribute_step(r, act, i, constraints, new_anns) ==
    LET self == r.st.a[act]
        announcement == set_anns(r.st, self.old_announcements)[i]
        attr_var == getattr(r.st, announcement, self.attribute)
        concrete == is_concrete(r.st.v[r.res])
        new_var == IF concrete
                   THEN partial_eval(r.st, r.res, self.value, attr_var)
                   ELSE Len(r.st.v) + 1
    IN  SetAttribute_loop(
            IF concrete THEN r.st
            ELSE create_fresh_var(r.st, r.st.v[attr_var].vsort,
                                  "Action" \o self.attribute \o "Val",
                                  SetAttribute_fresh_value(r.st, act)),
            act, i + 1,
            IF concrete THEN constraints
            ELSE Append(constraints,
                        IfMatch(r.res, new_var, self.value, attr_var)),
            Append(new_anns,
                   new_vals(r.st.n[announcement], self.attribute, new_var)))

\* the loop of SMTSetAttribute.execute over self._old_announcements
SetAttribute_loop(st, act, i, constraints, new_anns) ==
    IF i > Len(set_anns(st, st.a[act].old_announcements))
    THEN gathered(st, TRUE, constraints, new_anns)
    ELSE SetAttribute_step(
             is_match(st, st.a[act].match,
                      set_anns(st, st.a[act].old_announcements)[i]),
             act, i, constraints, new_anns)

\* SMTSetAttribute.execute
SMTSetAttribute_execute(st, act) ==
    IF executed(st, act) THEN done(st)
    ELSE finish(SetAttribute_loop(st, act, 1, <<>>, <<>>), act)

\* The old value SMTSetCommunity.execute puts in its constraint:
\* `attr_var.var`, where attr_var is getattr(announcement, 'communities'),
\* the whole mapping; a mapping has no `.var` and the access raises.
SetCommunity_old(st, announcement, community) ==
    [mapping |-> TRUE, var |-> 0]

RECURSIVE SetCommunity_loop(_, _, _, _, _)

\* one announcement of SMTSetCommunity.execute, the guard having answered r
SetCommunity_step(r, act, i, constraints, new_anns) ==
    LET self == r.st.a[act]
        announcement == set_anns(r.st, self.old_announcements)[i]
        old_var == communities_of(r.st, announcement)[self.community]
        concrete == is_concrete(r.st.v[r.res])
        st1 == IF concrete THEN r.st
               ELSE create_fresh_var(r.st, "Bool",
                                     "set_community_communities_val",
                                     VarValue(self.value))
        new_var == IF concrete
                   THEN partial_eval(r.st, r.res, self.value, old_var)
                   ELSE Len(r.st.v) + 1
        else == SetCommunity_old(r.st, announcement, self.community)
    IN  IF ~concrete /\ else.mapping
        THEN gathered(st1, FALSE, constraints, new_anns)
        ELSE SetCommunity_loop(
                 new_mapping(st1, [communities_of(r.st, announcement) EXCEPT
                                      ![self.community] = new_var]),
                 act, i + 1,
                 IF concrete THEN constraints
                 ELSE Append(constraints,
                             IfMatch(r.res, new_var, self.value, else.var)),
                 Append(new_anns, [r.st.n[announcement] EXCEPT
                                      !.communities = Len(r.st.k) + 1]))

\* the loop of SMTSetCommunity.execute over self._old_announcements
SetCommunity_loop(st, act, i, constraints, new_anns) ==
    IF i > Len(set_anns(st, st.a[act].old_announcements))
    THEN gathered(st, TRUE, constraints, new_anns)
    ELSE SetCommunity_step(
             is_match(st, st.a[act].match,
                      set_anns(st, st.a[act].old_announcements)[i]),
             act, i, constraints, new_anns)

\* SMTSetCommunity.execute
SMTSetCommunity_execute(st, act) ==
    IF executed(st, act) THEN done(st)
    ELSE finish(SetCommunity_loop(st, act, 1, <<>>, <<>>), act)

\* SMTSetOne.attributes / SMTSetOne.communities and those of the setters
RECURSIVE attributes(_, _)
attributes(st, act) ==
    CASE st.a[act].kind = "SetAttribute" -> {st.a[act].attribute}
      [] st.a[act].kind = "SetCommunity" -> {"communities"}
      [] st.a[act].kind = "SetOne" ->
           UNION {attributes(st, st.a[act].actions[i]) :
                     i \in DOMAIN st.a[act].actions}

RECURSIVE communities(_, _)
communities(st, act) ==
    CASE st.a[act].kind = "SetAttribute" -> {}
      [] st.a[act].kind = "SetCommunity" -> {st.a[act].community}
      [] st.a[act].kind = "SetOne" ->
           UNION {communities(st, st.a[act].actions[i]) :
                     i \in DOMAIN st.a[act].actions}

RECURSIVE get_actions(_, _, _, _, _, _)
RECURSIVE get_actions_old(_, _, _, _, _, _)

\* the values are read from the candidates' old announcements
get_actions_old(st, act, ann_index, attribute, default, index) ==
    IF index + 1 \notin DOMAIN st.a[act].actions THEN default
    ELSE LET action == st.a[act].actions[index + 1]
             value == getattr(st,
                          set_anns(st, st.a[action].old_announcements)[ann_index],
                          attribute)
         IN  If(index, value,
                get_actions_old(st, act, ann_index, attribute, default, index + 1))

\* SMTSetOne._get_actions ; the candidate of index i is actions[i + 1]
get_actions(st, act, ann_index, attribute, default, index) ==
    IF index + 1 \notin DOMAIN st.a[act].actions THEN default
    ELSE LET action == st.a[act].actions[index + 1]
             value == getattr(st, set_anns(st, st.a[action].announcements)[ann_index],
                              attribute)
         IN  If(index, value,
                get_actions(st, act, ann_index, attribute, default, index + 1))

\* SMTSetOne._get_communities
RECURSIVE get_communities(_, _, _, _, _, _)
get_communities(st, act, ann_index, community, default, index) ==
    IF index + 1 \notin DOMAIN st.a[act].actions THEN default
    ELSE LET action == st.a[act].actions[index + 1]
             value == communities_of(st,
                          set_anns(st, st.a[action].announcements)[ann_index])
                              [community]
         IN  If(index, value,
                get_communities(st, act, ann_index, community, default, index + 1))

\* what SMTSetOne.execute passes to _get_actions / _get_communities as the
\* default of the selection: new_var.var
SetOne_default(new_var, old_var) == Default(new_var)

\* no attribute is taken to pass through
passes_through_never(st, act, attr) == FALSE

\* `attr_only and attr not in self.attributes`
passes_through(st, act, attr) == attr \notin attributes(st, act)

\* the new announcement being filled in, and the state so far
filling(st, new_values) == [st |-> st, ann |-> new_values]

\* one community of SMTSetOne.execute: a fresh boolean, defined as the
\* selection among the candidates' values
SetOne_community(st, act, ann_index, new_values, community) ==
    LET st1 == create_fresh_var(st, "Bool", "setone_community_var_", NoValue)
        new_var == Len(st.v) + 1
        new_comms == new_values.communities
    IN  filling(
            [register_constraint(st1,
                [name |-> "setone_communities_", op |-> "eq_expr",
                 lhs |-> new_var,
                 expr |-> get_communities(st1, act, ann_index, community,
                              SetOne_default(new_var,
                                  st.k[new_comms][community]), 0)])
             EXCEPT !.k[new_comms][community] = new_var],
            new_values)

RECURSIVE SetOne_communities(_, _, _, _, _)

SetOne_communities_next(r, act, ann_index, j) ==
    SetOne_communities(r.st, act, ann_index, r.ann, j + 1)

\* the loop of SMTSetOne.execute over self.communities (in tag order)
SetOne_communities(st, act, ann_index, new_values, j) ==
    IF j > Len(Communities) THEN filling(st, new_values)
    ELSE IF Communities[j] \notin communities(st, act)
    THEN SetOne_communities(st, act, ann_index, new_values, j + 1)
    ELSE SetOne_communities_next(
             SetOne_community(st, act, ann_index, new_values, Communities[j]),
             act, ann_index, j)

\* copy.copy(mapping) hands back the mapping itself
copy_shared(st, mapping) == [st |-> st, id |-> mapping]

\* copy.copy(mapping): a new mapping object with the same entries
copy(st, mapping) ==
    [st |-> new_mapping(st, st.k[mapping]), id |-> Len(st.k) + 1]

\* the communities of SMTSetOne.execute, filled into the shallow copy r
SetOne_copied(r, act, ann_index, new_values) ==
    SetOne_communities(r.st, act, ann_index,
                       [new_values EXCEPT !.communities = r.id], 1)

\* one scalar attribute of SMTSetOne.execute: a fresh variable of the
\* attribute's sort, defined as the selection among the candidates' values
SetOne_attribute(st, act, ann_index, new_values, attr) ==
    LET old_var == new_values.attrs[attr]
        st1 == create_fresh_var(st, st.v[old_var].vsort,
                                "setone_" \o attr \o "_var_", NoValue)
        new_var == Len(st.v) + 1
    IN  filling(
            register_constraint(st1,
                [name |-> "setone_" \o attr \o "_", op |-> "eq_expr",
                 lhs |-> new_var,
                 expr |-> get_actions(st1, act, ann_index, attr,
                              SetOne_default(new_var, old_var), 0)]),
            [new_values EXCEPT !.attrs[attr] = new_var])

RECURSIVE SetOne_attributes(_, _, _, _, _)

SetOne_attributes_next(r, act, ann_index, k) ==
    SetOne_attributes(r.st, act, ann_index, r.ann, k + 1)

\* the loop of SMTSetOne.execute over Announcement.attributes
SetOne_attributes(st, act, ann_index, new_values, k) ==
    IF k > Len(Attributes) THEN filling(st, new_values)
    ELSE IF passes_through(st, act, Attributes[k])
    THEN SetOne_attributes(st, act, ann_index, new_values, k + 1)
    ELSE SetOne_attributes_next(
             IF Attributes[k] = "communities"
             THEN SetOne_copied(copy(st, new_values.communities),
                                act, ann_index, new_values)
             ELSE SetOne_attribute(st, act, ann_index, new_values, Attributes[k]),
             act, ann_index, k)

RECURSIVE SetOne_loop(_, _, _, _)

SetOne_loop_next(r, act, index, new_anns) ==
    SetOne_loop(r.st, act, index + 1, Append(new_anns, r.ann))

\* the loop of SMTSetOne.execute over self.old_announcements
SetOne_loop(st, act, index, new_anns) ==
    IF index > Len(set_anns(st, st.a[act].old_announcements))
    THEN gathered(st, TRUE, <<>>, new_anns)
    ELSE SetOne_loop_next(
             SetOne_attributes(st, act, index,
                 st.n[set_anns(st, st.a[act].old_announcements)[index]], 1),
             act, index, new_anns)

RECURSIVE execute(_, _)
RECURSIVE execute_all(_, _, _)

execute_all_next(r, acts, i) ==
    IF ~r.ok THEN r ELSE execute_all(r.st, acts, i + 1)

\* `for action in self.actions.values(): action.execute()`
execute_all(st, acts, i) ==
    IF i > Len(acts) THEN done(st)
    ELSE execute_all_next(execute(st, acts[i]), acts, i)

\* SMTSetOne.execute once the candidates have executed
SetOne_after(r, act) ==
    IF ~r.ok THEN r
    ELSE finish(SetOne_loop(r.st, act, 1, <<>>), act)

\* SMTSetOne.execute
SMTSetOne_execute(st, act) ==
    SetOne_after(execute_all(st, st.a[act].actions, 1), act)

execute(st, act) ==
    CASE st.a[act].kind = "SetAttribute" -> SMTSetAttribute_execute(st, act)
      [] st.a[act].kind = "SetCommunity" -> SMTSetCommunity_execute(st, act)
      [] st.a[act].kind = "SetOne" -> SMTSetOne_execute(st, act)

\* the constructor returns the object unless execute raised; the object of
\* a constructor that raised is not kept
init_result(r, st, act) ==
    IF r.ok THEN built(r.st, act)
    ELSE raised([r.st EXCEPT !.a = st.a])

\* the tail of a setter's constructor: the object exists and
\* self.execute() runs
init_execute(st, node) ==
    init_result(execute(add_action(st, node), Len(st.a) + 1), st, Len(st.a) + 1)

\* SMTSetAttribute.__init__
SMTSetAttribute_init(st, match, attribute, value, announcements) ==
    IF attribute \notin ScalarAttributes \cup {"communities"} THEN raised(st)
    ELSE IF set_anns(st, announcements) = <<>> THEN raised(st)
    ELSE IF attribute = "communities" THEN raised(st)
    ELSE
      LET first == set_anns(st, announcements)[1]
          attr_sort == st.v[getattr(st, first, attribute)].vsort
          st1 == IF value = 0
                 THEN create_fresh_var(st, attr_sort,
                                       "Set_" \o attribute \o "_val", NoValue)
                 ELSE st
          val == IF value = 0 THEN fresh(st1) ELSE value
      IN  IF attr_sort # st1.v[val].vsort THEN raised(st1)
          ELSE init_execute(st1, [ActionNode("SetAttribute") EXCEPT
                                     !.match = match,
                                     !.attribute = attribute,
                                     !.value = val,
                                     !.old_announcements = announcements])

\* SMTSetCommunity.__init__
SMTSetCommunity_init(st, match, community, value, announcements) ==
    IF set_anns(st, announcements) = <<>> THEN raised(st)
    ELSE IF community \notin DOMAIN communities_of(st, set_anns(st, announcements)[1])
    THEN raised(st)
    ELSE
      LET st1 == IF value = 0
                 THEN create_fresh_var(st, "Bool", "Set_community_val_",
                                       BoolValue(TRUE))
                 ELSE st
          val == IF value = 0 THEN fresh(st1) ELSE value
      IN  IF st1.v[val].vsort # "Bool" THEN raised(st1)
          ELSE init_execute(st1, [ActionNode("SetCommunity") EXCEPT
                                     !.match = match,
                                     !.community = community,
                                     !.value = val,
                                     !.old_announcements = announcements])

\* attribute_set_factory with match, announcements and ctx given
attribute_set_factory(st, attribute, match, value, announcements) ==
    IF attribute \in ScalarAttributes
    THEN SMTSetAttribute_init(st, match, attribute, value, announcements)
    ELSE IF attribute \in CommunitySet
    THEN SMTSetCommunity_init(st, match, attribute, value, announcements)
    ELSE raised(st)

\* the loop building the default candidate actions; r is the candidate
\* just built
RECURSIVE default_actions(_, _, _, _, _)
RECURSIVE default_actions_rest(_, _, _, _, _)
default_actions(st, keys, match, announcements, i) ==
    IF i > Len(keys) THEN no_ids(st)
    ELSE default_actions_rest(
             attribute_set_factory(st, keys[i], match, 0, announcements),
             keys, match, announcements, i)

default_actions_rest(r, keys, match, announcements, i) ==
    IF ~r.ok THEN no_list(r.st)
    ELSE prepend(r.id, default_actions(r.st, keys, match, announcements, i + 1))

\* the asserts of the loop of SMTSetOne.__init__ over the candidates
same_match_and_announcements(st, acts, match, announcements) ==
    \A i \in 1..Len(acts) :
        /\ st.a[acts[i]].match = match
        /\ st.a[acts[i]].old_announcements = announcements

\* SMTSetOne.__init__ once the candidates d are known
SetOne_over(d, match, announcements) ==
    IF ~d.ok THEN raised(d.st)
    ELSE
      LET st1 == create_fresh_var(d.st, "Int", "SetOneIndex_", NoValue)
          index_var == Len(d.st.v) + 1
      IN  IF ~same_match_and_announcements(d.st, d.ids, match, announcements)
          THEN raised(st1)
          ELSE built(add_action(
                         register_constraint(st1,
                             index_range("setone_index_max_", index_var,
                                         SetOne_lower, Len(d.ids))),
                         [ActionNode("SetOne") EXCEPT
                             !.match = match,
                             !.old_announcements = announcements,
                             !.actions = d.ids,
                             !.index_var = index_var]),
                     Len(d.st.a) + 1)

\* SMTSetOne.__init__ ; acts = <<>> stands for a missing or empty list
SMTSetOne_init(st, match, announcements, acts) ==
    IF set_anns(st, announcements) = <<>> THEN raised(st)
    ELSE SetOne_over(
             IF acts = <<>>
             THEN default_actions(st, default_keys(1), match, announcements, 1)
             ELSE [st |-> st, ok |-> TRUE, ids |-> acts],
             match, announcements)

-----------------------------------------------------------------------------
(* The initial state: one solver context, the announcements of the first   *)
(* announcement-set with their attribute values, an empty announcement-set *)
(* and the values a caller has at hand.                                    *)

\* the attribute slots of one announcement: the scalar attributes in order,
\* then the community tags
Slots == SelectSeq(Attributes, LAMBDA x : x # "communities") \o Communities

slot_of(key) == CHOOSE j \in 1..Len(Slots) : Slots[j] = key

\* the variable holding slot `key` of the i-th initial announcement
ann_var(i, key) == (i - 1) * Len(Slots) + slot_of(key)

\* the concrete value of a slot of the i-th initial announcement
slot_value(i, key) ==
    IF key \in CommunitySet THEN BoolValue(key = Communities[1] /\ i = 1)
    ELSE CASE AttrSort(key) = "Int" -> IntValue(100 * i)
           [] AttrSort(key) = "Bool" -> BoolValue(TRUE)
           [] OTHER -> EnumValue(((i - 1) % Len(EnumDomain(AttrSort(key)))) + 1)

slot_sort(key) == IF key \in CommunitySet THEN "Bool" ELSE AttrSort(key)

\* values a caller has built with ctx.create_fresh_var before calling in
Pool ==
    <<SMTVar("PeerSort", "caller_", EnumValue(1)),
      SMTVar("Int", "caller_", IntValue(100)),
      SMTVar("Bool", "caller_", BoolValue(TRUE))>>

\* a caller's value, as a position of Pool; 0 is None
PoolVar(p) == IF p = 0 THEN 0 ELSE NumAnns * Len(Slots) + p

\* the enumerated sorts and what a context knows of them: every sort has the
\* values of EnumDomain, the known prefixes may be none at all
EnumSorts ==
    {"PrefixSort", "PeerSort", "BGPOriginSort", "NextHopSort", "ASPathSort"}

InitEnums(prefixes) ==
    [vsort \in EnumSorts |->
        IF vsort = "PrefixSort" THEN prefixes ELSE EnumDomain(vsort)]

\* the attributes of the announcements in `symbolic` are unknown, and so is
\* every attribute of a sort that has no value
InitVars(symbolic, enums) ==
    [k \in 1..(NumAnns * Len(Slots)) |->
        LET i == ((k - 1) \div Len(Slots)) + 1
            key == Slots[((k - 1) % Len(Slots)) + 1]
        IN  SMTVar(slot_sort(key), "Ann_" \o key \o "_",
                   IF \/ i \in symbolic
                      \/ /\ slot_sort(key) \in EnumSorts
                         /\ enums[slot_sort(key)] = <<>>
                   THEN NoValue ELSE slot_value(i, key))]
    \o Pool

\* the contexts a caller starts from
InitChoices ==
    {[symbolic |-> {}, prefixes |-> EnumDomain("PrefixSort")],
     [symbolic |-> {NumAnns}, prefixes |-> EnumDomain("PrefixSort")],
     [symbolic |-> {NumAnns}, prefixes |-> <<>>]}

InitAnn(i) ==
    [attrs |-> [attr \in ScalarAttributes |-> ann_var(i, attr)],
     communities |-> i]

\* the communities mapping of the i-th initial announcement
InitComms(i) == [c \in CommunitySet |-> ann_var(i, c)]

\* The caller's view of its last call:
\*   op, kind     the call and the class it was made on
\*   node, ann    the object (0 when a constructor raised), the announcement
\*   match, set   the guard and the announcement-set given to a constructor
\*   res, ok      what the call returned; ok = FALSE when it raised
\*   again        the same query was made before / the action had executed
\*   first        what the first query returned / the version held before
\*   nv, nc, ns   variables, constraints and versions before the call
\*   list         the candidates given to a SelectOne or SetOne constructor
NoLast ==
    [op |-> "", kind |-> "", node |-> 0, ann |-> 0, match |-> 0, set |-> 0,
     res |-> 0, ok |-> TRUE, again |-> FALSE, first |-> 0,
     nv |-> 0, nc |-> 0, ns |-> 0, list |-> <<>>]

Init ==
    /\ \E choice \in InitChoices :
          /\ ctx_enums = InitEnums(choice.prefixes)
          /\ ctx_vars = InitVars(choice.symbolic, ctx_enums)
    /\ ctx_constraints = <<>>
    /\ matches = <<>>
    /\ actions = <<>>
    /\ anns = [i \in 1..NumAnns |-> InitAnn(i)]
    /\ comms = [i \in 1..NumAnns |-> InitComms(i)]
    /\ sets = <<[anns |-> [i \in 1..NumAnns |-> i], prev |-> 0, action |-> 0],
                [anns |-> <<>>, prev |-> 0, action |-> 0]>>
    /\ model = <<>>
    /\ asked = <<>>
    /\ last = NoLast

-----------------------------------------------------------------------------
(* The operations a caller can perform *)

Commit(st) ==
    /\ ctx_vars' = st.v
    /\ ctx_constraints' = st.c
    /\ matches' = st.m
    /\ actions' = st.a
    /\ anns' = st.n
    /\ comms' = st.k
    /\ sets' = st.s
    /\ ctx_enums' = st.e

\* what the caller sees of a call: the object or result it got (ok = FALSE
\* when the call raised) and the size of the solver context before the call
Seen(op, node, ann, res, ok) ==
    [NoLast EXCEPT !.op = op, !.node = node, !.ann = ann, !.res = res,
                   !.ok = ok, !.nv = Len(ctx_vars), !.nc = Len(ctx_constraints),
                   !.ns = Len(sets)]

\* a caller constructs a match of class kind on announcement-set s: r is
\* the constructor's outcome
ConstructedOver(kind, r, s, list) ==
    /\ Commit(r.st)
    /\ last' = [Seen("new_match", r.id, 0, 0, r.ok) EXCEPT
                   !.kind = kind, !.set = s, !.list = list]
    /\ UNCHANGED <<model, asked>>

Constructed(kind, r, s) == ConstructedOver(kind, r, s, <<>>)

MatchIds == 1..Len(matches)

SubLists(ids, lo) ==
    UNION {[1..n -> ids] : n \in lo..MaxSubs}

SetIds == 1..Len(sets)

\* An exception is not caught: the run ends with the call that raised.
Running == last.ok

\* nothing is built or queried once the solver has run
Building == Running /\ model = <<>>

Combinators == {"And", "Or", "SelectOne"}

NumCombinators == Cardinality({m \in MatchIds : matches[m].kind \in Combinators})

NumLeaves == Len(matches) - NumCombinators

CanAddLeaf == Building /\ NumLeaves < MaxLeaves

CanAddCombinator == Building /\ NumCombinators < MaxCombinators

NewMatchAll ==
    /\ CanAddLeaf
    /\ Constructed("All", SMTMatchAll_init(State), 1)

NewMatchNone ==
    /\ CanAddLeaf
    /\ Constructed("None", SMTMatchNone_init(State), 1)

NewMatchAnd ==
    /\ CanAddCombinator
    /\ \E ms \in SubLists(MatchIds, 0), s \in SetIds :
          Constructed("And", SMTMatchAnd_init(State, ms, s), s)

NewMatchOr ==
    /\ CanAddCombinator
    /\ \E ms \in SubLists(MatchIds, 0), s \in SetIds :
          Constructed("Or", SMTMatchOr_init(State, ms, s), s)

NewMatchAttribute ==
    /\ CanAddLeaf
    /\ \E attribute \in {"peer"}, p \in {0, 1, 2}, s \in SetIds :
          Constructed("Attribute", SMTMatchAttribute_init(State, attribute, PoolVar(p), s), s)

NewMatchCommunity ==
    /\ CanAddLeaf
    /\ \E community \in {Communities[1]}, p \in {0, Len(Pool)}, s \in SetIds :
          Constructed("Community", SMTMatchCommunity_init(State, community, PoolVar(p), s), s)

NewMatchSelectOne ==
    /\ CanAddCombinator
    /\ \E ms \in SubLists(MatchIds, 0), s \in SetIds :
          ConstructedOver("SelectOne", SMTMatchSelectOne_init(State, s, ms),
                          s, ms)

\* the route-map clauses a caller hands to the adapter
Clauses ==
    {Clause("MatchNextHop", 0, <<>>), Clause("MatchPeer", 1, <<>>),
     Clause("MatchLocalPref", 100, <<>>),
     Clause("MatchIpPrefixListList", 0, <<0>>),
     Clause("MatchIpPrefixListList", 0, <<1>>),
     Clause("MatchCommunitiesList", 0, <<"">>)}

NewSMTMatch ==
    /\ CanAddLeaf /\ CanAddCombinator
    /\ \E clause \in Clauses, s \in SetIds :
          Constructed("SMTMatch", SMTMatch_init(State, clause, s), s)

\* the caller's view of m.is_match(a), which returned r
Asked(m, a, r) ==
    /\ Commit(r.st)
    /\ last' = [Seen("is_match", m, a, r.res, TRUE) EXCEPT
                   !.again = (<<m, a>> \in DOMAIN asked),
                   !.first = IF <<m, a>> \in DOMAIN asked
                             THEN asked[<<m, a>>] ELSE 0]
    /\ asked' = IF <<m, a>> \in DOMAIN asked THEN asked
                ELSE (<<m, a>> :> r.res) @@ asked

\* a caller asks m.is_match(a)
IsMatch ==
    /\ Building
    /\ \E m \in MatchIds, a \in 1..Len(anns) :
        /\ <<m, a>> \in DOMAIN asked \/ Cardinality(DOMAIN asked) < MaxQueries
        /\ Asked(m, a, is_match(State, m, a))
    /\ UNCHANGED model

\* whether index value i satisfies an index range constraint as registered
in_range(constraint, i) ==
    /\ constraint.lower = "index_ge_0" => i >= 0
    /\ i < constraint.upper

\* the index range constraints registered for index variable x
ranges_of(x) ==
    {k \in 1..Len(ctx_constraints) :
        ctx_constraints[k].op = "index_range" /\ ctx_constraints[k].index = x}

\* The solver assigns the index variable of a SelectOne a value the
\* registered constraints allow.
SolveMatch ==
    \E m \in MatchIds :
        /\ Running
        /\ matches[m].kind = "SelectOne"
        /\ matches[m].index_var \notin DOMAIN model
        /\ \E i \in (0 - 1)..Len(matches[m].matches) :
              /\ \A k \in ranges_of(matches[m].index_var) :
                    in_range(ctx_constraints[k], i)
              /\ model' = (matches[m].index_var :> i) @@ model
        /\ last' = Seen("solve", m, 0, 0, TRUE)
        /\ UNCHANGED <<ctx_vars, ctx_constraints, ctx_enums, matches, actions,
                       anns, comms, sets, asked>>

\* a caller asks m.get_used_match() of a solved SelectOne
GetUsedMatch ==
    \E m \in MatchIds :
        /\ Running
        /\ matches[m].kind = "SelectOne"
        /\ matches[m].index_var \in DOMAIN model
        /\ LET r == get_used_match(State, model, m)
           IN  last' = Seen("get_used_match", m, 0, r.id, r.ok)
        /\ UNCHANGED <<ctx_vars, ctx_constraints, ctx_enums, matches, actions,
                       anns, comms, sets, model, asked>>

ActionIds == 1..Len(actions)

NumSetOnes == Cardinality({a \in ActionIds : actions[a].kind = "SetOne"})

NumSetters == Len(actions) - NumSetOnes

CanAddSetter == Building /\ NumSetters < MaxSetters

CanAddSetOne == Building /\ NumSetOnes < MaxSetOnes

\* a caller constructs an action of class kind with guard match on
\* announcement-set s: r is the constructor's outcome
ConstructedActionOver(kind, r, match, s, list) ==
    /\ Commit(r.st)
    /\ last' = [Seen("new_action", r.id, 0, 0, r.ok) EXCEPT
                   !.kind = kind, !.match = match, !.set = s, !.list = list]
    /\ UNCHANGED <<model, asked>>

ConstructedAction(kind, r, match, s) ==
    ConstructedActionOver(kind, r, match, s, <<>>)

NewSetAttribute ==
    /\ CanAddSetter
    /\ \E match \in MatchIds, attribute \in {"local_pref"}, p \in {0, 1, 2},
          s \in SetIds :
          ConstructedAction("SetAttribute",
              SMTSetAttribute_init(State, match, attribute, PoolVar(p), s),
              match, s)

NewSetCommunity ==
    /\ CanAddSetter
    /\ \E match \in MatchIds, community \in {Communities[1]}, p \in {0, 1},
          s \in SetIds :
          ConstructedAction("SetCommunity",
              SMTSetCommunity_init(State, match, community, PoolVar(p), s),
              match, s)

NewSetOne ==
    /\ CanAddSetOne
    /\ \E match \in MatchIds, acts \in SubLists(ActionIds, 0), s \in SetIds :
          ConstructedActionOver("SetOne",
              SMTSetOne_init(State, match, s, acts), match, s, acts)

\* the caller's view of act.execute(), which returned r
Executed(act, r) ==
    /\ Commit(r.st)
    /\ last' = [Seen("execute", act, 0, r.st.a[act].announcements, r.ok)
                   EXCEPT !.kind = actions[act].kind,
                          !.again = (actions[act].announcements # 0),
                          !.first = actions[act].announcements]

\* a caller calls act.execute()
Execute ==
    /\ Building
    /\ \E act \in ActionIds :
          /\ actions[act].announcements = 0 \/ Len(sets) < MaxSets
          /\ Executed(act, execute(State, act))
    /\ UNCHANGED <<model, asked>>

MatchNext ==
    \/ NewMatchAll
    \/ NewMatchNone
    \/ NewMatchAnd
    \/ NewMatchOr
    \/ NewMatchAttribute
    \/ NewMatchCommunity
    \/ NewMatchSelectOne
    \/ NewSMTMatch
    \/ IsMatch
    \/ SolveMatch
    \/ GetUsedMatch

ActionNext ==
    \/ NewMatchAttribute
    \/ NewSetAttribute
    \/ NewSetCommunity
    \/ NewSetOne
    \/ Execute

Next == MatchNext \/ ActionNext

\* every caller
Spec == Init /\ [][Next]_vars

\* callers that build and query matches only
SpecMatch == Init /\ [][MatchNext]_vars

\* callers that build guards and the actions they guard
SpecAction == Init /\ [][ActionNext]_vars

\* a caller constructs a community match with any value it has at hand
NewMatchCommunityAny ==
    /\ CanAddLeaf
    /\ \E community \in {Communities[1]}, p \in 0..Len(Pool), s \in SetIds :
          Constructed("Community",
              SMTMatchCommunity_init(State, community, PoolVar(p), s), s)

SortsNext ==
    \/ NewMatchAttribute
    \/ NewMatchCommunityAny

\* callers that build value-carrying matches from values of any sort
SpecSorts == Init /\ [][SortsNext]_vars

-----------------------------------------------------------------------------
(* Reading the state: what a match has answered, what a constraint says *)

\* the result object match m holds for announcement a (0 when it holds none)
RECURSIVE result_of(_, _)
result_of(m, a) ==
    CASE matches[m].kind \in {"All", "None"} -> matches[m].match_var
      [] matches[m].kind = "SMTMatch" -> result_of(matches[m].smt_match, a)
      [] OTHER -> IF a \in DOMAIN matches[m].matched_announcements
                  THEN matches[m].matched_announcements[a]
                  ELSE 0

\* the variable a registered constraint defines (0 when it defines none)
constraint_lhs(c) == IF c.op \in {"eq_and", "eq_or", "eq_expr", "eq_check"}
                     THEN c.lhs ELSE 0

\* the constraints that define variable x
defining(x) ==
    {k \in 1..Len(ctx_constraints) : constraint_lhs(ctx_constraints[k]) = x}

\* what a nested conditional evaluates to when the index is i: the variable
\* of the branch taken, 0 for the constant false
RECURSIVE select(_, _)
select(expr, i) ==
    CASE expr.tag = "If" ->
           IF expr.index = i THEN expr.var ELSE select(expr.next, i)
      [] expr.tag = "AndFalse" -> 0
      [] expr.tag = "Default" -> expr.var

\* the index values a nested conditional tests, outermost first
RECURSIVE tested(_)
tested(expr) ==
    IF expr.tag = "If" THEN <<expr.index>> \o tested(expr.next) ELSE <<>>

\* the index values of an index variable with k candidates that its
\* registered range constraints allow, among -1 .. k
allowed(x, k) ==
    {i \in (0 - 1)..k : \A c \in ranges_of(x) : in_range(ctx_constraints[c], i)}

Old(act) == sets[actions[act].old_announcements].anns
New(act) == sets[actions[act].announcements].anns

\* the communities mapping an announcement holds
Comms(ann) == comms[anns[ann].communities]

\* the if/else terms of the constraints the setters have registered
RegisteredIfMatch(k) ==
    IF ctx_constraints[k].op = "and"
    THEN {ctx_constraints[k].args[j] : j \in DOMAIN ctx_constraints[k].args}
    ELSE {}

-----------------------------------------------------------------------------
(* The claims *)

ExecuteIdempotent ==
    (last.op = "execute" /\ last.again) =>
        /\ last.ok
        /\ Len(ctx_vars) = last.nv
        /\ Len(ctx_constraints) = last.nc
        /\ actions[last.node].announcements = last.first

\* C3 (as claimed): when the constructor of an action returns, the action
\* holds the new version made from its old announcements.
ConstructionExecutes ==
    (last.op = "new_action" /\ last.ok) =>
        /\ actions[last.node].announcements # 0
        /\ sets[actions[last.node].announcements].prev
              = actions[last.node].old_announcements
        /\ sets[actions[last.node].announcements].action = last.node

IndexRangeExact ==
    /\ \A m \in MatchIds : matches[m].kind = "SelectOne" =>
          /\ Cardinality(ranges_of(matches[m].index_var)) = 1
          /\ allowed(matches[m].index_var, Len(matches[m].matches))
                = 0..(Len(matches[m].matches) - 1)
    /\ \A a \in ActionIds : actions[a].kind = "SetOne" =>
          /\ Cardinality(ranges_of(actions[a].index_var)) = 1
          /\ allowed(actions[a].index_var, Len(actions[a].actions))
                = 0..(Len(actions[a].actions) - 1)

\* C6: the constraint a SelectOne registers for announcement a defines its
\* result as a conditional that tests the index against 0 .. k-1 in order,
\* yields candidate i's own result for a when the index is i and the
\* constant false outside 0 .. k-1; and get_used_match() of a SelectOne
\* solved to i in 0 .. k-1 returns candidate i.
SelectOneSemantics ==
    /\ \A m \in MatchIds : matches[m].kind = "SelectOne" =>
          \A a \in DOMAIN matches[m].matched_announcements :
              LET res == matches[m].matched_announcements[a]
                  k == Len(matches[m].matches)
              IN  /\ Cardinality(defining(res)) = 1
                  /\ \A c \in defining(res) :
                        /\ ctx_constraints[c].op = "eq_expr"
                        /\ tested(ctx_constraints[c].expr) = [i \in 1..k |-> i - 1]
                        /\ \A i \in 0..(k - 1) :
                              select(ctx_constraints[c].expr, i)
                                 = result_of(matches[m].matches[i + 1], a)
                        /\ select(ctx_constraints[c].expr, 0 - 1) = 0
                        /\ select(ctx_constraints[c].expr, k) = 0
    /\ (last.op = "get_used_match"
          /\ model[matches[last.node].index_var]
                \in 0..(Len(matches[last.node].matches) - 1)) =>
          /\ last.ok
          /\ last.res = matches[last.node].matches[
                            model[matches[last.node].index_var] + 1]

\* a SelectOne over several candidates has answered for an announcement, was
\* solved to index 1 and was asked get_used_match()
SelectOneSemanticsWitness ==
    /\ last.op = "get_used_match" /\ last.ok
    /\ Len(matches[last.node].matches) > 1
    /\ model[matches[last.node].index_var] = 1
    /\ DOMAIN matches[last.node].matched_announcements # {}

\* C7: where the guard of a SetAttribute is concrete for an announcement the
\* new attribute is the value object (guard true) or the old attribute
\* object (guard false) and no registered if/else is about that guard
\* result; a SetAttribute whose guard is concrete for every announcement has
\* registered no constraint and allocated no action variable.
SetAttributeConcrete ==
    /\ \A act \in ActionIds :
          (actions[act].kind = "SetAttribute" /\ actions[act].announcements # 0) =>
              \A i \in DOMAIN Old(act) :
                  LET g == result_of(actions[act].match, Old(act)[i])
                      attr == actions[act].attribute
                  IN  is_concrete(ctx_vars[g]) =>
                          /\ anns[New(act)[i]].attrs[attr]
                                = IF get_value(ctx_vars[g])
                                  THEN actions[act].value
                                  ELSE anns[Old(act)[i]].attrs[attr]
                          /\ \A k \in 1..Len(ctx_constraints) :
                                \A t \in RegisteredIfMatch(k) : t.match # g
    /\ (/\ last.op = "new_action" /\ last.kind = "SetAttribute" /\ last.ok
        /\ \A i \in DOMAIN Old(last.node) :
              is_concrete(ctx_vars[result_of(last.match, Old(last.node)[i])])) =>
          /\ Len(ctx_constraints) = last.nc
          /\ \A k \in (last.nv + 1)..Len(ctx_vars) :
                ctx_vars[k].name_prefix
                   # "Action" \o actions[last.node].attribute \o "Val"

\* a SetAttribute has executed over an announcement its guard concretely
\* matches and one its guard concretely does not match
SetAttributeConcreteWitness ==
    \E act \in ActionIds :
        /\ actions[act].kind = "SetAttribute" /\ actions[act].announcements # 0
        /\ \E i, j \in DOMAIN Old(act) :
              LET x == ctx_vars[result_of(actions[act].match, Old(act)[i])]
                  y == ctx_vars[result_of(actions[act].match, Old(act)[j])]
              IN  /\ is_concrete(x) /\ get_value(x)
                  /\ is_concrete(y) /\ ~get_value(y)
                  /\ anns[New(act)[i]].attrs[actions[act].attribute]
                        = actions[act].value

\* C8 (as claimed): where the guard of a SetAttribute is not concrete the
\* new attribute is a non-concrete value, and exactly one registered
\* constraint holds the if/else  new == (guard ? value : old).
SetAttributeSymbolic ==
    \A act \in ActionIds :
        (actions[act].kind = "SetAttribute" /\ actions[act].announcements # 0) =>
            \A i \in DOMAIN Old(act) :
                LET g == result_of(actions[act].match, Old(act)[i])
                    attr == actions[act].attribute
                    new == anns[New(act)[i]].attrs[attr]
                IN  ~is_concrete(ctx_vars[g]) =>
                        /\ ~is_concrete(ctx_vars[new])
                        /\ Cardinality(
                              {k \in 1..Len(ctx_constraints) :
                                  IfMatch(g, new, actions[act].value,
                                          anns[Old(act)[i]].attrs[attr])
                                     \in RegisteredIfMatch(k)}) = 1

\* C9 (as claimed): a SetCommunity that allocates the fresh boolean for an
\* announcement with a non-concrete guard completes, and has registered
\* new == (guard ? value : old) with old the announcement's previous
\* communities[tag].
SetCommunitySymbolic ==
    (/\ last.op = "new_action" /\ last.kind = "SetCommunity"
     /\ \E k \in (last.nv + 1)..Len(ctx_vars) :
           ctx_vars[k].name_prefix = "set_community_communities_val") =>
        /\ last.ok
        /\ \A i \in DOMAIN Old(last.node) :
              LET g == result_of(last.match, Old(last.node)[i])
                  tag == actions[last.node].community
                  new == Comms(New(last.node)[i])[tag]
              IN  ~is_concrete(ctx_vars[g]) =>
                      \E k \in 1..Len(ctx_constraints) :
                          IfMatch(g, new, actions[last.node].value,
                                  Comms(Old(last.node)[i])[tag])
                             \in RegisteredIfMatch(k)

Unmodified(s) ==
    /\ sets'[s].anns = sets[s].anns
    /\ \A p \in DOMAIN sets[s].anns :
          LET ann == sets[s].anns[p]
          IN  /\ anns'[ann].attrs = anns[ann].attrs
              /\ comms'[anns'[ann].communities] = comms[anns[ann].communities]
              /\ \A attr \in ScalarAttributes :
                    ctx_vars'[anns[ann].attrs[attr]] = ctx_vars[anns[ann].attrs[attr]]
              /\ \A tag \in CommunitySet :
                    ctx_vars'[Comms(ann)[tag]] = ctx_vars[Comms(ann)[tag]]

\* C11: an execute() that makes version V+1 from version V leaves V
\* unmodified: V's sequence of announcements, every attribute of each and
\* every entry of each communities mapping are after the call what they were
\* before it, also when execute() is called again; no step changes a version
\* that exists.
VersionsUnmodified ==
    [][\A s \in DOMAIN sets : Unmodified(s)]_vars

\* a SetOne with a community in its footprint, which writes into the
\* communities mapping it builds, has executed a second time
VersionsUnmodifiedWitness ==
    /\ last.op = "execute" /\ last.kind = "SetOne" /\ last.ok /\ last.again
    /\ communities(State, last.node) # {}
    /\ last.res # last.first

\* C12 (as claimed): a constructor of MatchAnd, MatchOr, SelectOne,
\* MatchAttribute, MatchCommunity, SetAttribute, SetCommunity, SetOne or of
\* the adapter SMTMatch that is given an empty announcement-set raises, and
\* no node is returned.
EmptySetRejected ==
    (/\ last.op \in {"new_match", "new_action"}
     /\ last.kind \in {"And", "Or", "SelectOne", "Attribute", "Community",
                       "SMTMatch", "SetAttribute", "SetCommunity", "SetOne"}
     /\ sets[last.set].anns = <<>>) =>
        (~last.ok /\ last.node = 0)

\* C13 (as claimed): no value-carrying node exists with a value of the wrong
\* sort: the value of a MatchAttribute or SetAttribute has the sort of its
\* attribute and the value of a MatchCommunity or SetCommunity is boolean,
\* a constructor given any other value having raised.
SortMismatchRejected ==
    /\ \A m \in MatchIds :
          /\ matches[m].kind = "Attribute" =>
                ctx_vars[matches[m].value].vsort = AttrSort(matches[m].attribute)
          /\ matches[m].kind = "Community" =>
                ctx_vars[matches[m].value].vsort = "Bool"
    /\ \A act \in ActionIds :
          /\ actions[act].kind = "SetAttribute" =>
                ctx_vars[actions[act].value].vsort = AttrSort(actions[act].attribute)
          /\ actions[act].kind = "SetCommunity" =>
                ctx_vars[actions[act].value].vsort = "Bool"

\* match m is a SelectOne whose candidates are, in order, one MatchAttribute
\* on attr per value of domain, each pinned to that concrete value
OnePerValue(m, attr, domain) ==
    /\ matches[m].kind = "SelectOne"
    /\ Len(matches[m].matches) = Len(domain)
    /\ \A j \in DOMAIN matches[m].matches :
          LET candidate == matches[matches[m].matches[j]]
          IN  /\ candidate.kind = "Attribute"
              /\ candidate.attribute = attr
              /\ ctx_vars[candidate.value].kind = "enum"
              /\ ctx_vars[candidate.value].val = domain[j]

\* the attribute a single-value clause of the adapter tests
ClauseAttribute(clause) ==
    CASE clause.type = "MatchNextHop" -> "next_hop"
      [] clause.type = "MatchPeer" -> "peer"
      [] clause.type = "MatchLocalPref" -> "local_pref"

\* C14 (as claimed): for a next-hop or peer clause that carries no concrete
\* value the adapter builds a SelectOne with one MatchAttribute per value of
\* the attribute's domain, each pinned to a concrete value, and not a
\* single MatchAttribute on an unconstrained symbolic value.
AnyValueSelectsOne ==
    \A m \in MatchIds :
        (/\ matches[m].kind = "SMTMatch"
         /\ matches[m].match.type \in {"MatchNextHop", "MatchPeer"}
         /\ matches[m].match.match = 0) =>
            OnePerValue(matches[m].smt_match,
                        ClauseAttribute(matches[m].match),
                        ctx_enums[AttrSort(ClauseAttribute(matches[m].match))])

\* C15 (as claimed): a MatchAnd with at least one concrete false sub-result,
\* and a MatchOr with at least one concrete true sub-result, answers with a
\* concrete result that no constraint defines, also when other sub-results
\* are not concrete.
DecidedShortCircuit ==
    \A m \in MatchIds : matches[m].kind \in {"And", "Or"} =>
        \A a \in DOMAIN matches[m].matched_announcements :
            LET res == matches[m].matched_announcements[a]
                subs == [i \in DOMAIN matches[m].matches |->
                            ctx_vars[result_of(matches[m].matches[i], a)]]
            IN  (\E i \in DOMAIN subs :
                    /\ is_concrete(subs[i])
                    /\ get_value(subs[i]) = (matches[m].kind = "Or")) =>
                    /\ is_concrete(ctx_vars[res])
                    /\ get_value(ctx_vars[res]) = (matches[m].kind = "Or")
                    /\ defining(res) = {}

\* variable x is a fresh symbolic value that one registered constraint
\* defines as a selection yielding values[i + 1] when the index is i
SelectsAmong(x, values) ==
    /\ ~is_concrete(ctx_vars[x])
    /\ Cardinality(defining(x)) = 1
    /\ \A c \in defining(x) :
          /\ ctx_constraints[c].op = "eq_expr"
          /\ \A i \in DOMAIN values :
                select(ctx_constraints[c].expr, i - 1) = values[i]

\* C16: after SetOne.execute over k candidates, for every position p and
\* every attribute and community tag in the candidates' footprints, the
\* output announcement at p holds one fresh symbolic value for it, and one
\* registered constraint defines that value so that, for every i in
\* 0 .. k-1, when the index is i it equals the value candidate i has
\* computed for that attribute or tag at position p.
SetOneSelects ==
    \A act \in ActionIds :
        (actions[act].kind = "SetOne" /\ actions[act].announcements # 0) =>
            \A p \in DOMAIN New(act) :
                /\ \A attr \in attributes(State, act) \cap ScalarAttributes :
                      /\ anns[New(act)[p]].attrs[attr] # anns[Old(act)[p]].attrs[attr]
                      /\ SelectsAmong(anns[New(act)[p]].attrs[attr],
                             [i \in DOMAIN actions[act].actions |->
                                 anns[New(actions[act].actions[i])[p]].attrs[attr]])
                /\ \A tag \in communities(State, act) :
                      /\ Comms(New(act)[p])[tag] # Comms(Old(act)[p])[tag]
                      /\ SelectsAmong(Comms(New(act)[p])[tag],
                             [i \in DOMAIN actions[act].actions |->
                                 Comms(New(actions[act].actions[i])[p])[tag]])

\* a SetOne over two candidates, a SetAttribute that changes its attribute
\* for some announcement among them, has executed
SetOneSelectsWitness ==
    /\ last.op = "execute" /\ last.kind = "SetOne" /\ last.ok
    /\ Len(actions[last.node].actions) = 2
    /\ \E i \in DOMAIN actions[last.node].actions :
          LET candidate == actions[last.node].actions[i]
          IN  /\ actions[candidate].kind = "SetAttribute"
              /\ \E p \in DOMAIN New(candidate) :
                    anns[New(candidate)[p]].attrs["local_pref"]
                       # anns[Old(candidate)[p]].attrs["local_pref"]

\* C17 (as claimed): the last fallback of the selection a SetOne registers
\* is the value the old announcement holds: when the index is none of
\* 0 .. k-1, the new value of an attribute or tag in the footprint equals
\* its value in the input announcement at that position.
SetOneFallsBackToOld ==
    \A act \in ActionIds :
        (actions[act].kind = "SetOne" /\ actions[act].announcements # 0) =>
            \A p \in DOMAIN New(act) :
                /\ \A attr \in attributes(State, act) \cap ScalarAttributes :
                      \A c \in defining(anns[New(act)[p]].attrs[attr]) :
                          select(ctx_constraints[c].expr, Len(actions[act].actions))
                             = anns[Old(act)[p]].attrs[attr]
                /\ \A tag \in communities(State, act) :
                      \A c \in defining(Comms(New(act)[p])[tag]) :
                          select(ctx_constraints[c].expr, Len(actions[act].actions))
                             = Comms(Old(act)[p])[tag]

SetOneRejectionClean ==
    (/\ last.op = "new_action" /\ last.kind = "SetOne" /\ ~last.ok
     /\ sets[last.set].anns # <<>>
     /\ \E i \in DOMAIN last.list :
           \/ actions[last.list[i]].match # last.match
           \/ actions[last.list[i]].old_announcements # last.set) =>
        /\ Len(ctx_vars) = last.nv
        /\ Len(ctx_constraints) = last.nc

\* match m is a SelectOne whose candidates are, in order, one MatchCommunity
\* per known community tag
OnePerCommunity(m) ==
    /\ matches[m].kind = "SelectOne"
    /\ Len(matches[m].matches) = Len(Communities)
    /\ \A j \in DOMAIN matches[m].matches :
          /\ matches[matches[m].matches[j]].kind = "Community"
          /\ matches[matches[m].matches[j]].community = Communities[j]

\* C20 (as claimed): a SelectOne takes the default universe only when it is
\* given no candidate list: a SelectOne built from a list has exactly that
\* list, and the SelectOne the adapter builds for an unspecified network of
\* a prefix-list clause has exactly one prefix match per value of the
\* known-prefix domain and nothing else, whatever the size of the domain,
\* the empty domain included (likewise one community match per known tag
\* for an unspecified community).
ExplicitCandidatesOnly ==
    /\ (/\ last.op = "new_match" /\ last.kind = "SelectOne" /\ last.ok
        /\ last.list # <<>>) =>
          matches[last.node].matches = last.list
    /\ \A m \in MatchIds : matches[m].kind = "SMTMatch" =>
          \A j \in DOMAIN matches[m].match.items :
              /\ (/\ matches[m].match.type = "MatchIpPrefixListList"
                  /\ matches[m].match.items[j] = 0) =>
                    OnePerValue(matches[matches[m].smt_match].matches[j],
                                "prefix", ctx_enums["PrefixSort"])
              /\ (/\ matches[m].match.type = "MatchCommunitiesList"
                  /\ matches[m].match.items[j] = "") =>
                    OnePerCommunity(matches[matches[m].smt_match].matches[j])

====
